---- MODULE Spec2Model ----
(***************************************************************************)
(* media-server-diff (src/src/main.rs): walk a directory tree, probe every *)
(* candidate file in parallel, join the per-file blocks into one report    *)
(* and print it.  The two formatters (format_duration, format_bit_rate)    *)
(* are modelled as operators on strings.                                   *)
(*                                                                         *)
(* A string is a sequence of fragments (TLA+ strings).  The formatters     *)
(* produce one character per fragment; the literals of a format string    *)
(* are one fragment each, and "\n" is always a fragment of its own.        *)
(***************************************************************************)
EXTENDS Integers, Sequences, FiniteSets, TLC

VARIABLES
    root,     \* the ScanRoot handed to generate_report (fixed for one run)
    pc,       \* position of main/generate_report
    next,     \* index of the next item the walker yields
    paths,    \* Vec<PathBuf>: the candidates collected so far
    task,     \* per candidate: position of its analyze_path call
    out,      \* per candidate: what its analyze_path call returned
    order,    \* indexes of the candidates in the order their probes finished
    results,  \* Vec<String> collected from the parallel iterator
    ret,      \* what generate_report returned
    stdout,   \* every write to standard output, in order
    calls     \* formatter calls made so far: [fn, arg, tie, res]

vars == <<root, pc, next, paths, task, out, order, results, ret, stdout, calls>>

pipeVars == <<root, pc, next, paths, task, out, order, results, ret, stdout>>

(***************************************************************************)
(* Bounds of the model.                                                    *)
(***************************************************************************)
MaxEntries == 3

(***************************************************************************)
(* Strings and the formatting machinery of format!.                        *)
(***************************************************************************)
Digit(n) == <<"0", "1", "2", "3", "4", "5", "6", "7", "8", "9">>[n + 1]

RECURSIVE Decimal(_)
\* "{}" of an unsigned integer
Decimal(n) ==
    IF n < 10 THEN <<Digit(n)>> ELSE Decimal(n \div 10) \o <<Digit(n % 10)>>

\* "{}" of an i64
DisplayInt(n) == IF n < 0 THEN <<"-">> \o Decimal(-n) ELSE Decimal(n)

\* a bug a maintainer could plausibly write: "{}" where "{:02}" is meant
Pad2Unpadded(n) == Decimal(n)

\* "{:02}": zero-padded to a minimum width of two
Pad2(n) == IF n < 10 THEN <<"0">> \o Decimal(n) ELSE Decimal(n)

\* "{:.2}" of (n as f64) / unit for n > 0 and unit in {1000, 1000000}: the
\* quotient rounded to the nearest hundredth.  When n / unit lies exactly
\* half way between two hundredths, the binary double nearest to it decides
\* the direction; tieUp says which side that double falls on.
Fixed2(n, unit, tieUp) ==
    LET step == unit \div 100
        q    == n \div step
        rem  == n % step
        h    == IF 2 * rem > step \/ (2 * rem = step /\ tieUp) THEN q + 1 ELSE q
    IN  Decimal(h \div 100) \o <<".", Digit((h \div 10) % 10), Digit(h % 10)>>

RECURSIVE Join(_, _)
\* [String]::join(sep)
Join(ss, sep) ==
    IF Len(ss) = 0 THEN <<>>
    ELSE IF Len(ss) = 1 THEN ss[1]
    ELSE ss[1] \o sep \o Join(Tail(ss), sep)

\* str::ends_with for a suffix that is one fragment
EndsWith(s, suffix) == Len(s) > 0 /\ s[Len(s)] = suffix

(***************************************************************************)
(* Duration: whole seconds and sub-second nanoseconds.                     *)
(***************************************************************************)
\* Duration::from_micros(context.duration().try_into().unwrap_or(0)):
\* a negative i64 does not convert to u64 and becomes 0
DurationFromContext(us) ==
    LET u == IF us < 0 THEN 0 ELSE us
    IN  [secs |-> u \div 1000000, nanos |-> (u % 1000000) * 1000]

\* a bug a maintainer could plausibly write: test the rendered hours
\* (hours % 24) instead of the total hours
FormatDurationHoursMod(duration) ==
    LET minutes == duration.secs \div 60
        hours   == minutes \div 60
        days    == hours \div 24
    IN  (IF days > 0 THEN Pad2(days) \o <<":">> ELSE <<>>)
        \o (IF hours % 24 > 0 THEN Pad2(hours % 24) \o <<":">> ELSE <<>>)
        \o Pad2(minutes % 60) \o <<":">>
        \o Pad2(duration.secs % 60)
        \o (IF duration.nanos > 0
            THEN <<".">> \o Decimal(duration.nanos \div 10000000)
            ELSE <<>>)

\* format_duration.  subsec_nanos as f64 * 1e-7 is positive exactly when
\* subsec_nanos is, and its truncation to u64 is subsec_nanos div 10^7.
FormatDuration(duration) ==
    LET minutes == duration.secs \div 60
        hours   == minutes \div 60
        days    == hours \div 24
    IN  (IF days > 0 THEN Pad2(days) \o <<":">> ELSE <<>>)
        \o (IF hours > 0 THEN Pad2(hours % 24) \o <<":">> ELSE <<>>)
        \o Pad2(minutes % 60) \o <<":">>
        \o Pad2(duration.secs % 60)
        \o (IF duration.nanos > 0
            THEN <<".">> \o Decimal(duration.nanos \div 10000000)
            ELSE <<>>)

\* a bug a maintainer could plausibly write: non-strict thresholds
FormatBitRateNonStrict(bit_rate, tieUp) ==
    IF bit_rate >= 1000000
    THEN Fixed2(bit_rate, 1000000, tieUp) \o <<" MB/s">>
    ELSE IF bit_rate >= 1000
    THEN Fixed2(bit_rate, 1000, tieUp) \o <<" KB/s">>
    ELSE DisplayInt(bit_rate) \o <<" B/s">>

\* format_bit_rate
FormatBitRate(bit_rate, tieUp) ==
    IF bit_rate > 1000000
    THEN Fixed2(bit_rate, 1000000, tieUp) \o <<" MB/s">>
    ELSE IF bit_rate > 1000
    THEN Fixed2(bit_rate, 1000, tieUp) \o <<" KB/s">>
    ELSE DisplayInt(bit_rate) \o <<" B/s">>

(***************************************************************************)
(* The file system under the scan root, as the walker and the media        *)
(* library see it.  Every entry is of one of these kinds.                  *)
(***************************************************************************)
DirKinds == {"dir", "baddir"}

FileKinds == {"nfo", "badname", "junk", "movie", "song", "subs"}

ErrKinds == {"denied", "nopath", "badpath"}

ChildKinds == DirKinds \cup FileKinds \cup ErrKinds

\* the extension of an entry's file name
Ext(kind) ==
    CASE kind = "nfo"   -> ".nfo"
      [] kind = "junk"  -> ".txt"
      [] kind = "movie" -> ".mp4"
      [] kind = "song"  -> ".mp3"
      [] kind = "subs"  -> ".ass"
      [] OTHER          -> ".d"

NoStream == [some |-> FALSE, index |-> 0, rate |-> <<>>]

\* What the media library reports for a file of each kind: whether
\* ffmpeg::format::input opens it, and the container's mime_types(),
\* duration() in microseconds, bit_rate() and best streams.
Media(kind) ==
    CASE kind = "movie" ->
            [open |-> TRUE, mimes |-> <<>>,
             duration |-> 1500120000, bit_rate |-> 12000000,
             video |-> [some |-> TRUE, index |-> 0, rate |-> <<"24000/1001">>],
             audio |-> [some |-> TRUE, index |-> 1, rate |-> <<"0/0">>]]
      [] kind = "song" ->
            [open |-> TRUE, mimes |-> << <<"audio", "/mpeg">> >>,
             duration |-> 91000000, bit_rate |-> 12000,
             video |-> NoStream,
             audio |-> [some |-> TRUE, index |-> 0, rate |-> <<"0/0">>]]
      [] kind = "subs" ->
            [open |-> TRUE, mimes |-> << <<"text", "/x-ass">> >>,
             duration |-> -1, bit_rate |-> 0,
             video |-> NoStream, audio |-> NoStream]
      [] OTHER ->
            [open |-> FALSE, mimes |-> <<>>, duration |-> 0, bit_rate |-> 0,
             video |-> NoStream, audio |-> NoStream]

\* One item of WalkDir's iterator: Ok(DirEntry) or Err(walkdir::Error).
Item(kind, fileName, path) ==
    [res      |-> IF kind \in ErrKinds THEN "Err" ELSE "Ok",
     kind     |-> kind,
     isDir    |-> kind \in DirKinds,
     fileName |-> fileName,
     nameText |-> kind \notin {"badname", "baddir"},
     path     |-> path,
     hasPath  |-> kind # "nopath",
     pathText |-> kind \notin {"badname", "baddir", "badpath"}]

ChildItem(kind, i) ==
    LET fileName == <<"f">> \o Decimal(i) \o <<Ext(kind)>>
    IN  Item(kind, fileName, <<"root/">> \o fileName)

\* The scan roots: a directory with up to MaxEntries entries below it, a
\* regular file, or a path that does not exist.
Roots ==
    {[kind |-> "dir", entries |-> es] :
        es \in UNION {[1..n -> ChildKinds] : n \in 0..MaxEntries}}
    \cup {[kind |-> "file", entries |-> <<k>>] : k \in FileKinds}
    \cup {[kind |-> "missing", entries |-> <<>>]}

\* WalkDir::new(path).into_iter(): a directory root is yielded first and
\* then what lies below it; a root that is a file is the only item
\* yielded; a root that does not exist yields one error carrying its path.
WalkDir(r) ==
    CASE r.kind = "dir" ->
            <<Item("dir", <<"root">>, <<"root">>)>>
            \o [i \in 1..Len(r.entries) |-> ChildItem(r.entries[i], i)]
      [] r.kind = "file" ->
            LET fileName == <<"root">> \o <<Ext(r.entries[1])>>
            IN  <<Item(r.entries[1], fileName, fileName)>>
      [] OTHER ->
            <<Item("denied", <<"root">>, <<"root">>)>>

(***************************************************************************)
(* should_inspect_file and the walk of generate_report.                    *)
(***************************************************************************)
\* entry.file_name().to_str().unwrap() is evaluated only for a non-directory
\* (&& short-circuits) and panics when the name is not valid text
ShouldInspectPanics(entry) == ~entry.isDir /\ ~entry.nameText

should_inspect_file(entry) ==
    ~entry.isDir /\ ~EndsWith(entry.fileName, ".nfo")

\* error.path().unwrap().to_str().unwrap() in the Err arm
WarnPanics(error) == ~error.hasPath \/ ~error.pathText

None == [some |-> FALSE, val |-> <<>>]

Some(v) == [some |-> TRUE, val |-> v]

Init ==
    /\ root \in Roots
    /\ pc = "walk"
    /\ next = 1
    /\ paths = <<>>
    /\ task = <<>>
    /\ out = <<>>
    /\ order = <<>>
    /\ results = <<>>
    /\ ret = None
    /\ stdout = <<>>
    /\ calls = <<>>

\* filter_map closure, Ok arm
WalkOk ==
    /\ pc = "walk"
    /\ next <= Len(WalkDir(root))
    /\ LET e == WalkDir(root)[next]
       IN  /\ e.res = "Ok"
           /\ IF ShouldInspectPanics(e)
              THEN /\ pc' = "panicked"
                   /\ UNCHANGED <<next, paths>>
              ELSE /\ pc' = pc
                   /\ next' = next + 1
                   /\ paths' = IF should_inspect_file(e)
                               THEN Append(paths, [path |-> e.path, kind |-> e.kind])
                               ELSE paths
    /\ UNCHANGED <<root, task, out, order, results, ret, stdout, calls>>

\* filter_map closure, Err arm
WalkErr ==
    /\ pc = "walk"
    /\ next <= Len(WalkDir(root))
    /\ LET e == WalkDir(root)[next]
       IN  /\ e.res = "Err"
           /\ IF WarnPanics(e)
              THEN /\ pc' = "panicked"
                   /\ next' = next
              ELSE /\ pc' = pc
                   /\ next' = next + 1
    /\ UNCHANGED <<root, paths, task, out, order, results, ret, stdout, calls>>

\* the iterator is exhausted: collect() returns paths and par_iter() hands
\* one analyze_path call per path to the pool
WalkDone ==
    /\ pc = "walk"
    /\ next > Len(WalkDir(root))
    /\ pc' = "probe"
    /\ task' = [i \in 1..Len(paths) |-> [pc |-> "queued", descs |-> <<>>]]
    /\ out' = [i \in 1..Len(paths) |-> None]
    /\ UNCHANGED <<root, next, paths, order, results, ret, stdout, calls>>

(***************************************************************************)
(* analyze_path, one call per candidate, run by the pool in any            *)
(* interleaving.                                                           *)
(***************************************************************************)
StartsWith(s, prefix) == Len(s) > 0 /\ s[1] = prefix

\* the any(...) over mime_types(); the if it feeds has an empty body
MimeIsMedia(media) ==
    \E i \in 1..Len(media.mimes) :
        StartsWith(media.mimes[i], "audio") \/ StartsWith(media.mimes[i], "video")

\* a bug a maintainer could plausibly write: let the MIME check gate the
\* result
ProbeOpensMimeGated(media) == media.open /\ MimeIsMedia(media)

\* match ffmpeg::format::input(path): the Ok arm is taken exactly when the
\* container opens; the MIME check that follows changes nothing
ProbeOpens(media) == media.open

\* path.to_string_lossy() of a path that is valid text
ToStringLossy(path) == path

\* println!("Best video stream index: {}", stream.index()), in both arms
BestStreamLine(stream) ==
    <<"Best video stream index: ">> \o Decimal(stream.index) \o <<"\n">>

\* format!("Video: {} kb/s", stream.rate()) / format!("Audio: {} kb/s", ..)
StreamDescription(label, stream) == <<label>> \o stream.rate \o <<" kb/s">>

\* the final format! of analyze_path
Block(file_name, duration, bit_rate, stream_descriptions) ==
    file_name
    \o <<"\n", "\t", "Duration: ">> \o duration
    \o <<"\n", "\t", "Bit rate: ">> \o bit_rate
    \o <<"\n", "\t">> \o Join(stream_descriptions, <<"\n", "\t">>)

Finish(i, value) ==
    /\ out' = [out EXCEPT ![i] = value]
    /\ order' = Append(order, i)

\* ffmpeg::format::input(path) and the match on its result
AnalyzeOpen(i) ==
    /\ pc = "probe"
    /\ task[i].pc = "queued"
    /\ IF ProbeOpens(Media(paths[i].kind))
       THEN /\ task' = [task EXCEPT ![i].pc = "video"]
            /\ UNCHANGED <<out, order>>
       ELSE /\ task' = [task EXCEPT ![i].pc = "done"]
            /\ Finish(i, None)
    /\ UNCHANGED <<root, pc, next, paths, results, ret, stdout, calls>>

\* if let Some(stream) = context.streams().best(Type::Video)
AnalyzeBestVideo(i) ==
    /\ pc = "probe"
    /\ task[i].pc = "video"
    /\ LET stream == Media(paths[i].kind).video
       IN  IF stream.some
           THEN /\ stdout' = Append(stdout, BestStreamLine(stream))
                /\ task' = [task EXCEPT ![i] =
                       [pc |-> "audio",
                        descs |-> Append(@.descs, StreamDescription("Video: ", stream))]]
           ELSE /\ stdout' = stdout
                /\ task' = [task EXCEPT ![i].pc = "audio"]
    /\ UNCHANGED <<root, pc, next, paths, out, order, results, ret, calls>>

\* if let Some(stream) = context.streams().best(Type::Audio)
AnalyzeBestAudio(i) ==
    /\ pc = "probe"
    /\ task[i].pc = "audio"
    /\ LET stream == Media(paths[i].kind).audio
       IN  IF stream.some
           THEN /\ stdout' = Append(stdout, BestStreamLine(stream))
                /\ task' = [task EXCEPT ![i] =
                       [pc |-> "format",
                        descs |-> Append(@.descs, StreamDescription("Audio: ", stream))]]
           ELSE /\ stdout' = stdout
                /\ task' = [task EXCEPT ![i].pc = "format"]
    /\ UNCHANGED <<root, pc, next, paths, out, order, results, ret, calls>>

\* Some(format!(...)): the call returns its block
AnalyzeReturn(i) ==
    /\ pc = "probe"
    /\ task[i].pc = "format"
    /\ LET media == Media(paths[i].kind)
           block == Block(ToStringLossy(paths[i].path),
                          FormatDuration(DurationFromContext(media.duration)),
                          FormatBitRate(media.bit_rate, FALSE),
                          task[i].descs)
       IN  Finish(i, Some(block))
    /\ task' = [task EXCEPT ![i].pc = "done"]
    /\ UNCHANGED <<root, pc, next, paths, results, ret, stdout, calls>>

RECURSIVE InIndexOrder(_, _)
InIndexOrder(outs, i) ==
    IF i > Len(outs) THEN <<>>
    ELSE (IF outs[i].some THEN <<outs[i].val>> ELSE <<>>)
         \o InIndexOrder(outs, i + 1)

RECURSIVE InGivenOrder(_, _)
InGivenOrder(outs, ord) ==
    IF ord = <<>> THEN <<>>
    ELSE (IF outs[Head(ord)].some THEN <<outs[Head(ord)].val>> ELSE <<>>)
         \o InGivenOrder(outs, Tail(ord))

\* a bug a maintainer could plausibly write: gather the results as the
\* tasks finish (a channel or a shared Vec behind a lock)
CollectedAsFinished(outs, finished) == InGivenOrder(outs, finished)

\* paths.par_iter().filter_map(analyze_path).collect::<Vec<_>>(): the Some
\* values, in the order of paths whatever order the calls finished in
Collected(outs, finished) == InIndexOrder(outs, 1)

\* all calls have returned: collect, join, return
Collect ==
    /\ pc = "probe"
    /\ \A i \in 1..Len(task) : task[i].pc = "done"
    /\ results' = Collected(out, order)
    /\ ret' = Some(Join(results', <<"\n">>))
    /\ pc' = "print"
    /\ UNCHANGED <<root, next, paths, task, out, order, stdout, calls>>

\* main: if let Some(file_contents) = ... { println!("{}", file_contents) }
MainPrint ==
    /\ pc = "print"
    /\ stdout' = IF ret.some THEN Append(stdout, ret.val \o <<"\n">>) ELSE stdout
    /\ pc' = "exit"
    /\ UNCHANGED <<root, next, paths, task, out, order, results, ret, calls>>

Next ==
    \/ WalkOk
    \/ WalkErr
    \/ WalkDone
    \/ \E i \in 1..Len(task) : AnalyzeOpen(i)
    \/ \E i \in 1..Len(task) : AnalyzeBestVideo(i)
    \/ \E i \in 1..Len(task) : AnalyzeBestAudio(i)
    \/ \E i \in 1..Len(task) : AnalyzeReturn(i)
    \/ Collect
    \/ MainPrint

Spec == Init /\ [][Next]_vars

(***************************************************************************)
(* The formatters on their own: a pair of calls with arguments drawn from  *)
(* sample sets around every threshold of the two functions.                *)
(***************************************************************************)
MaxDays == 100

DaySamples == {0, 1, MaxDays - 1, MaxDays}

WholeSeconds ==
    {d * 86400 + h * 3600 + m * 60 + s :
        d \in DaySamples, h \in {0, 1, 7, 23}, m \in {0, 1, 59}, s \in {0, 31, 57, 59}}

\* 1.12 s and 1.1233 s as Duration::from_secs_f32 gives them, and other
\* sub-second parts
NanoSamples == {1000, 2000, 50000000, 120000000, 120000005, 123299956, 500000000}

Durations ==
    {[secs |-> s, nanos |-> 0] : s \in WholeSeconds}
    \cup {[secs |-> s, nanos |-> n] : s \in {0, 1}, n \in NanoSamples}

Rates ==
    {m * scale + off :
        m \in {0, 1, 12}, scale \in {1, 1000, 1000000}, off \in {-1, 0, 1, 2, 5, 5000}}

InitFmt ==
    /\ root = [kind |-> "missing", entries |-> <<>>]
    /\ pc = "idle"
    /\ next = 1
    /\ paths = <<>>
    /\ task = <<>>
    /\ out = <<>>
    /\ order = <<>>
    /\ results = <<>>
    /\ ret = None
    /\ stdout = <<>>
    /\ calls = <<>>

CallFormatDuration ==
    /\ Len(calls) < 2
    /\ \E d \in Durations :
        calls' = Append(calls,
            [fn |-> "format_duration", secs |-> d.secs, nanos |-> d.nanos,
             rate |-> 0, res |-> FormatDuration(d)])
    /\ UNCHANGED pipeVars

CallFormatBitRate ==
    /\ Len(calls) < 2
    /\ \E r \in Rates, tieUp \in BOOLEAN :
        calls' = Append(calls,
            [fn |-> "format_bit_rate", secs |-> 0, nanos |-> 0,
             rate |-> r, res |-> FormatBitRate(r, tieUp)])
    /\ UNCHANGED pipeVars

NextFmt ==
    \/ CallFormatDuration
    \/ CallFormatBitRate

SpecFmt == InitFmt /\ [][NextFmt]_vars

(***************************************************************************)
(* Vocabulary of the properties.                                           *)
(***************************************************************************)
RECURSIVE Lines(_)
\* the lines of a string: what lies between its "\n" fragments
Lines(s) ==
    IF \A i \in 1..Len(s) : s[i] # "\n" THEN <<s>>
    ELSE LET k == CHOOSE i \in 1..Len(s) :
                      s[i] = "\n" /\ \A j \in 1..(i - 1) : s[j] # "\n"
         IN  <<SubSeq(s, 1, k - 1)>> \o Lines(SubSeq(s, k + 1, Len(s)))

RECURSIVE LinesOfAll(_)
\* the lines of each string of a sequence, one string after the other
LinesOfAll(ss) ==
    IF ss = <<>> THEN <<>> ELSE Lines(Head(ss)) \o LinesOfAll(Tail(ss))

Candidates == 1..Len(paths)

Opens(i) == Media(paths[i].kind).open

Returned == pc \in {"print", "exit"}

AllProbesFinished ==
    pc \in {"probe", "print", "exit"} /\ \A i \in 1..Len(task) : task[i].pc = "done"

\* the blocks of the report whose first line names candidate i
BlocksOf(i) == {j \in 1..Len(results) : Lines(results[j])[1] = paths[i].path}

\* position in order at which candidate i finished
FinishedAt(i) == CHOOSE k \in 1..Len(order) : order[k] = i

C2_ReportInCompletionOrder ==
    Returned =>
        \A i, k \in Candidates :
            (Opens(i) /\ Opens(k) /\ FinishedAt(i) < FinishedAt(k)) =>
                \A a \in BlocksOf(i), b \in BlocksOf(k) : a < b

(***************************************************************************)
(* C2 as amended: the blocks of the report are in the walker's order of    *)
(* the candidates, whatever order the probes finished in.                  *)
(***************************************************************************)
C2_ReportInWalkOrder ==
    Returned =>
        \A i, k \in Candidates :
            (Opens(i) /\ Opens(k) /\ i < k) =>
                \A a \in BlocksOf(i), b \in BlocksOf(k) : a < b

\* two candidates probe successfully and the later-walked one finishes first
C2_Witness ==
    /\ pc = "exit"
    /\ \E i, k \in Candidates :
          /\ i < k /\ Opens(i) /\ Opens(k)
          /\ FinishedAt(k) < FinishedAt(i)
          /\ BlocksOf(i) # {} /\ BlocksOf(k) # {}

(***************************************************************************)
(* C3: nothing is on standard output until every probe has finished, and   *)
(* all that is ever written there is the assembled report.                 *)
(***************************************************************************)
C3_StdoutHoldsOnlyTheReport ==
    /\ ~AllProbesFinished => stdout = <<>>
    /\ \A w \in 1..Len(stdout) : ret.some /\ stdout[w] = ret.val \o <<"\n">>

(***************************************************************************)
(* C4: when the walk yields no candidate, generate_report returns no       *)
(* report and nothing is printed.                                          *)
(***************************************************************************)
C4_NoCandidateNoReport ==
    (Returned /\ paths = <<>>) => (~ret.some /\ stdout = <<>>)

(***************************************************************************)
(* C5: no entry of the walked tree makes the program abort: not a          *)
(* traversal error with or without a path, not a name or path that is not  *)
(* valid text, not a file that fails to open.                              *)
(***************************************************************************)
C5_NeverAborts == pc # "panicked"

(***************************************************************************)
(* C6: when the root is not a directory the walk yields no candidate,      *)
(* nothing is probed and nothing aborts.  Stated for roots whose name is   *)
(* valid text, so that the property does not rest on the abort of C5.      *)
(***************************************************************************)
C6_NonDirectoryRootIsNoOp ==
    (root.kind # "dir" /\ \A i \in 1..Len(WalkDir(root)) : WalkDir(root)[i].nameText)
        => (paths = <<>> /\ task = <<>> /\ pc # "panicked")

(***************************************************************************)
(* C7: every block analyze_path returns is the file-name line, the         *)
(* Duration line, the Bit rate line and one line per kind that has a best  *)
(* stream, Video before Audio, each of these lines after the first         *)
(* indented by one tab, and no other line; the report is the blocks with   *)
(* one newline between them.                                               *)
(***************************************************************************)
C7_BlockShape ==
    /\ \A i \in 1..Len(out) : out[i].some =>
          LET ls == Lines(out[i].val)
              m  == Media(paths[i].kind)
              v  == IF m.video.some THEN 1 ELSE 0
              a  == IF m.audio.some THEN 1 ELSE 0
          IN  /\ Len(ls) = 3 + v + a
              /\ ls[1] = paths[i].path
              /\ SubSeq(ls[2], 1, 2) = <<"\t", "Duration: ">>
              /\ SubSeq(ls[3], 1, 2) = <<"\t", "Bit rate: ">>
              /\ m.video.some => SubSeq(ls[4], 1, 2) = <<"\t", "Video: ">>
              /\ m.audio.some => SubSeq(ls[4 + v], 1, 2) = <<"\t", "Audio: ">>
    /\ (Returned /\ ret.some /\ results # <<>>) =>
          Lines(ret.val) = LinesOfAll(results)

(***************************************************************************)
(* Vocabulary of the properties of the formatters.                         *)
(***************************************************************************)
DurationCalls == {i \in 1..Len(calls) : calls[i].fn = "format_duration"}

BitRateCalls == {i \in 1..Len(calls) : calls[i].fn = "format_bit_rate"}

\* exactly two digits
TwoDigits(v) == <<Digit((v \div 10) % 10), Digit(v % 10)>>

\* two digits, and all the digits of a value that has more
AtLeastTwoDigits(v) == IF v < 100 THEN TwoDigits(v) ELSE Decimal(v)

\* the segments of s whole seconds, each value rendered by Seg
Segments(s, Seg(_)) ==
    (IF s >= 86400 THEN Seg(s \div 86400) \o <<":">> ELSE <<>>)
    \o (IF s >= 3600 THEN Seg((s \div 3600) % 24) \o <<":">> ELSE <<>>)
    \o Seg((s \div 60) % 60) \o <<":">>
    \o Seg(s % 60)

DurationExamples ==
    {<<0,      <<"0", "0", ":", "0", "0">> >>,
     <<60,     <<"0", "1", ":", "0", "0">> >>,
     <<91,     <<"0", "1", ":", "3", "1">> >>,
     <<3600,   <<"0", "1", ":", "0", "0", ":", "0", "0">> >>,
     <<28797,  <<"0", "7", ":", "5", "9", ":", "5", "7">> >>,
     <<86400,  <<"0", "1", ":", "0", "0", ":", "0", "0", ":", "0", "0">> >>,
     <<115197, <<"0", "1", ":", "0", "7", ":", "5", "9", ":", "5", "7">> >>}

Digits == {Digit(n) : n \in 0..9}

IsDigits(cs) == Len(cs) > 0 /\ \A i \in 1..Len(cs) : cs[i] \in Digits

DigitValue(c) == CHOOSE n \in 0..9 : Digit(n) = c

RECURSIVE ParseNat(_)
\* the number a sequence of digits denotes
ParseNat(cs) ==
    IF cs = <<>> THEN 0
    ELSE ParseNat(SubSeq(cs, 1, Len(cs) - 1)) * 10 + DigitValue(cs[Len(cs)])

\* res is "<digits>.<two digits><suffix>" and the number it shows is r / unit
\* to the nearest hundredth
ShowsScaled(res, r, unit, suffix) ==
    LET n == Len(res)
    IN  /\ n >= 5
        /\ res[n] = suffix
        /\ res[n - 3] = "."
        /\ IsDigits(SubSeq(res, 1, n - 4))
        /\ IsDigits(SubSeq(res, n - 2, n - 1))
        /\ LET h    == ParseNat(SubSeq(res, 1, n - 4)) * 100
                       + ParseNat(SubSeq(res, n - 2, n - 1))
               step == unit \div 100
           IN  2 * (h * step - r) <= step /\ 2 * (r - h * step) <= step

\* res is the integer r, with no decimals, and " B/s"
ShowsPlain(res, r) ==
    LET n   == Len(res)
        num == SubSeq(res, 1, n - 1)
        abs == IF r < 0 THEN Tail(num) ELSE num
    IN  /\ n >= 2
        /\ res[n] = " B/s"
        /\ (r < 0) = (num[1] = "-")
        /\ IsDigits(abs)
        /\ Len(abs) = 1 \/ abs[1] # "0"
        /\ ParseNat(abs) = (IF r < 0 THEN -r ELSE r)

BitRateExamples ==
    {<<12000000, <<"1", "2", ".", "0", "0", " MB/s">> >>,
     <<12000,    <<"1", "2", ".", "0", "0", " KB/s">> >>,
     <<12,       <<"1", "2", " B/s">> >>,
     <<1000,     <<"1", "0", "0", "0", " B/s">> >>,
     <<1000000,  <<"1", "0", "0", "0", ".", "0", "0", " KB/s">> >>}

(***************************************************************************)
(* C8 as stated: for s whole seconds format_duration returns the days      *)
(* segment (only if s >= 86400), the hours segment (only if s >= 3600),    *)
(* the minutes segment and the seconds segment, separated by ':', each     *)
(* segment exactly two digits, and no fraction.                            *)
(***************************************************************************)
C8_TwoDigitSegments ==
    \A i \in DurationCalls :
        calls[i].nanos = 0 => calls[i].res = Segments(calls[i].secs, TwoDigits)

(***************************************************************************)
(* C8 as amended: the same segments under the same conditions, each        *)
(* zero-padded to at least two digits (the days segment has three or more  *)
(* digits from 100 days on); the minutes and seconds segments are always   *)
(* there, and the listed examples come out as listed.                      *)
(***************************************************************************)
C8_PaddedSegments ==
    \A i \in DurationCalls :
        calls[i].nanos = 0 =>
            /\ calls[i].res = Segments(calls[i].secs, AtLeastTwoDigits)
            /\ \A ex \in DurationExamples :
                  calls[i].secs = ex[1] => calls[i].res = ex[2]

\* format_duration has been applied to 115197 s and to a span of 100 days
C8_Witness ==
    /\ Len(calls) = 2
    /\ calls[1].fn = "format_duration" /\ calls[1].nanos = 0
    /\ calls[1].secs = 115197
    /\ calls[1].res = <<"0", "1", ":", "0", "7", ":", "5", "9", ":", "5", "7">>
    /\ calls[2].fn = "format_duration" /\ calls[2].nanos = 0
    /\ calls[2].secs = 100 * 86400
    /\ Len(calls[2].res) = 12

(***************************************************************************)
(* C9: format_bit_rate picks its unit by strict comparison: above          *)
(* 1,000,000 the rate over 1,000,000 with two decimals and ' MB/s'; above  *)
(* 1,000 and up to 1,000,000 the rate over 1,000 with two decimals and     *)
(* ' KB/s'; up to 1,000, zero and negatives included, the integer itself   *)
(* and ' B/s'; and the listed examples come out as listed.                 *)
(***************************************************************************)
C9_StrictThresholds ==
    \A i \in BitRateCalls :
        LET r == calls[i].rate
            res == calls[i].res
        IN  /\ r > 1000000 => ShowsScaled(res, r, 1000000, " MB/s")
            /\ (r > 1000 /\ r <= 1000000) => ShowsScaled(res, r, 1000, " KB/s")
            /\ r <= 1000 => ShowsPlain(res, r)
            /\ \A ex \in BitRateExamples : r = ex[1] => res = ex[2]

\* format_bit_rate has been applied to both boundary rates
C9_Witness ==
    /\ Len(calls) = 2
    /\ calls[1].fn = "format_bit_rate" /\ calls[1].rate = 1000000
    /\ calls[1].res = <<"1", "0", "0", "0", ".", "0", "0", " KB/s">>
    /\ calls[2].fn = "format_bit_rate" /\ calls[2].rate = 1000
    /\ calls[2].res = <<"1", "0", "0", "0", " B/s">>

(***************************************************************************)
(* C10 as stated: two different spans never format to the same string, and *)
(* two different non-negative bit rates never format to the same string.   *)
(***************************************************************************)
C10_FormattersInjective ==
    /\ \A i, j \in DurationCalls :
          (calls[i].secs # calls[j].secs \/ calls[i].nanos # calls[j].nanos)
              => calls[i].res # calls[j].res
    /\ \A i, j \in BitRateCalls :
          (calls[i].rate >= 0 /\ calls[j].rate >= 0 /\ calls[i].rate # calls[j].rate)
              => calls[i].res # calls[j].res

\* what format_duration keeps of the sub-second part: nothing of a zero
\* part, the hundredths of a non-zero one
ShownFraction(nanos) == IF nanos = 0 THEN -1 ELSE nanos \div 10000000

\* the unit format_bit_rate divides a rate by
UnitOf(r) == IF r > 1000000 THEN 1000000 ELSE IF r > 1000 THEN 1000 ELSE 1

(***************************************************************************)
(* C10 as amended: the string determines the input up to the precision     *)
(* printed.  Two spans format differently when they differ in their whole  *)
(* seconds or in the hundredths of a second shown; two different           *)
(* non-negative bit rates format differently when one of them is at most   *)
(* 1,000, when they fall in different units, or when they differ by more   *)
(* than a hundredth of their unit.                                         *)
(***************************************************************************)
C10_InjectiveUpToPrecision ==
    /\ \A i, j \in DurationCalls :
          (\/ calls[i].secs # calls[j].secs
           \/ ShownFraction(calls[i].nanos) # ShownFraction(calls[j].nanos))
              => calls[i].res # calls[j].res
    /\ \A i, j \in BitRateCalls :
          LET a == calls[i].rate
              b == calls[j].rate
          IN  (/\ a >= 0 /\ b >= 0 /\ a # b
               /\ \/ a <= 1000 \/ b <= 1000
                  \/ UnitOf(a) # UnitOf(b)
                  \/ 100 * (a - b) > UnitOf(a) \/ 100 * (b - a) > UnitOf(a))
              => calls[i].res # calls[j].res

\* one hour and one day, whose strings differ only by the days segment
C10_Witness ==
    /\ Len(calls) = 2
    /\ calls[1].fn = "format_duration" /\ calls[1].nanos = 0
    /\ calls[1].secs = 3600
    /\ calls[2].fn = "format_duration" /\ calls[2].nanos = 0
    /\ calls[2].secs = 86400
    /\ calls[1].res # calls[2].res

====
